---- MODULE Spec2Model ----
(***************************************************************************)
(* Model of the state reconciliation layer of terraform-provider-sequin:   *)
(* the three resources (sequin_sink_consumer, sequin_database,             *)
(* sequin_backfill), their Create / Read / Update / Delete / ImportState   *)
(* handlers and the response-to-state merges (mapResponseToModel,         *)
(* mapBackfillResponseToModel) together with the API client's error        *)
(* classification, the request builders and the provider's Configure.      *)
(*                                                                         *)
(* Encoding of values.                                                     *)
(*  - A Terraform attribute value (types.String, types.Bool, types.Int64,  *)
(*    types.List) is a record [k, v]: k is "null", "unknown" or "value"    *)
(*    and v is the Go value that ValueString()/ValueBool()/... returns     *)
(*    (the zero value when k is not "value").                              *)
(*  - A Terraform object (types.Object) is a record [k, a] where a is the  *)
(*    record of its attributes; Attributes() of a null or unknown object   *)
(*    is the empty map, so a is only read when k = "value".                *)
(*  - A Go string of a wire struct is a TLA+ string, "" being the zero     *)
(*    value that `omitempty` drops; a Go pointer (to bool, int or struct)  *)
(*    is a record [set, v], set = FALSE being nil.                         *)
(***************************************************************************)
EXTENDS Integers, Sequences, FiniteSets, TLC

VARIABLES
    rtype,   \* which resource instance this run reconciles
    state,   \* the persisted Terraform state of that instance
    last,    \* the last handler invocation: its inputs, its API call, its outcome
    hist     \* history: what the run so far has been (never read by a handler)

vars == <<rtype, state, last, hist>>

----------------------------------------------------------------------------
(* Terraform attribute values *)

Null(zero) == [k |-> "null", v |-> zero]
Unknown(zero) == [k |-> "unknown", v |-> zero]
Known(x) == [k |-> "value", v |-> x]
NullStr == Null("")
Str(s) == Known(s)

IsNull(x) == x.k = "null"
IsUnknown(x) == x.k = "unknown"

(* Go pointers of the wire structs *)
Nil(zero) == [set |-> FALSE, v |-> zero]
Ptr(x) == [set |-> TRUE, v |-> x]

----------------------------------------------------------------------------
(* sequin_sink_consumer: the destination, a union of four kinds flattened  *)
(* into one object of nineteen attributes                                   *)

DestKinds == {"kafka", "sqs", "kinesis", "webhook"}

DestStringAttrs ==
    {"hosts", "topic", "username", "password", "sasl_mechanism", "aws_region",
     "aws_access_key_id", "aws_secret_access_key", "queue_url", "region",
     "access_key_id", "secret_access_key", "stream_arn", "http_endpoint",
     "http_endpoint_path"}
DestBoolAttrs == {"tls", "is_fifo", "batch"}
DestAttrs == DestStringAttrs \cup DestBoolAttrs

\* The attributes the schema marks Sensitive: accepted in requests, not
\* returned by the API.
SensitiveAttrs ==
    {"password", "aws_access_key_id", "aws_secret_access_key",
     "access_key_id", "secret_access_key"}

\* The attributes each destination kind owns (schema comments and the
\* grouping of the wire struct).
KindAttrs(kind) ==
    CASE kind = "kafka" ->
           {"hosts", "topic", "tls", "username", "password", "sasl_mechanism",
            "aws_region", "aws_access_key_id", "aws_secret_access_key"}
      [] kind = "sqs" ->
           {"queue_url", "region", "access_key_id", "secret_access_key", "is_fifo"}
      [] kind = "kinesis" ->
           {"stream_arn", "region", "access_key_id", "secret_access_key"}
      [] kind = "webhook" ->
           {"http_endpoint", "http_endpoint_path", "batch"}
      [] OTHER -> {}

\* Attributes() of the null object types.ObjectNull(destAttrTypes); it is
\* never read, it only gives the null object one canonical form.
NullDestAttrs ==
    [f \in DestAttrs \cup {"type"} |->
        IF f \in DestBoolAttrs THEN Null(FALSE) ELSE NullStr]
NullDest == [k |-> "null", a |-> NullDestAttrs]

\* client.SinkConsumerDestination{Type: kind} with every other field zero.
WireDest(kind) ==
    [f \in DestAttrs \cup {"type"} |->
        IF f = "type" THEN kind
        ELSE IF f \in DestBoolAttrs THEN Nil(FALSE) ELSE ""]

\* `if response.Destination.X != "" { destAttrs[x] = types.StringValue(X) }`
\* over the initial types.StringNull().
StringOrNull(s) == IF s # "" THEN Str(s) ELSE NullStr

\* `if response.Destination.X != nil { destAttrs[x] = types.BoolValue(...) }`
BoolOrNull(p) == IF p.set THEN Known(p.v) ELSE Null(FALSE)

\* origDestAttrs[f].(types.String) with ok && !IsNull(): the attribute of
\* the prior destination, when the prior object has attributes at all.
OrigAttrSet(orig, f) == orig.k = "value" /\ ~IsNull(orig.a[f])

\* A variant of the preservation that never carries the prior value over.
PreserveSensitiveDropped(orig, f) == NullStr

\* The five "Preserve sensitive fields" assignments: the prior value, when it
\* is not null, replaces the initial null.
PreserveSensitive(orig, f) ==
    IF ~IsNull(orig) /\ OrigAttrSet(orig, f) THEN orig.a[f] ELSE NullStr

\* password, aws_access_key_id, aws_secret_access_key: no assignment from
\* the response exists, so the preserved prior value is final.
\* access_key_id, secret_access_key: the later `if response... != ""`
\* assignment overwrites the preserved value.
MergeSensitive(rd, orig, f) ==
    IF f \in {"access_key_id", "secret_access_key"} /\ rd[f] # ""
    THEN Str(rd[f])
    ELSE PreserveSensitive(orig, f)

\* topic: the response's topic when non-empty; when empty, the prior topic
\* if the prior object is not null and its topic is not null.
MergeTopic(rd, orig) ==
    IF rd.topic # "" THEN Str(rd.topic)
    ELSE IF ~IsNull(orig) /\ OrigAttrSet(orig, "topic") THEN orig.a.topic
    ELSE NullStr

\* "Map destination": the destination object mapResponseToModel stores.
MapDestination(rd, orig) ==
    [k |-> "value",
     a |-> [f \in DestAttrs \cup {"type"} |->
              IF f = "type" THEN Str(rd.type)
              ELSE IF f \in SensitiveAttrs THEN MergeSensitive(rd, orig, f)
              ELSE IF f = "topic" THEN MergeTopic(rd, orig)
              ELSE IF f \in DestBoolAttrs THEN BoolOrNull(rd[f])
              ELSE StringOrNull(rd[f])]]

----------------------------------------------------------------------------
(* sequin_sink_consumer: the rest of mapResponseToModel *)

SourceLists == {"include_schemas", "exclude_schemas", "include_tables", "exclude_tables"}

NullSource == [k |-> "null", a |-> [f \in SourceLists |-> Null(<<>>)]]

\* A variant of the source rule that stores every list the response has,
\* empty ones included.
MapSourceAsReceived(rs) ==
    IF rs.set
    THEN [k |-> "value", a |-> [f \in SourceLists |-> Known(rs.v[f])]]
    ELSE NullSource

\* "Map source": an absent source, or one whose four lists are all empty, is
\* the null object; otherwise each non-empty list is stored and each empty
\* one is null.
MapSource(rs) ==
    LET sourceHasData == rs.set /\ \E f \in SourceLists : Len(rs.v[f]) > 0
    IN IF sourceHasData
       THEN [k |-> "value",
             a |-> [f \in SourceLists |->
                      IF Len(rs.v[f]) > 0 THEN Known(rs.v[f]) ELSE Null(<<>>)]]
       ELSE NullSource

\* "Map tables": one object per response table, in order.
MapTables(rt) ==
    Known([i \in 1..Len(rt) |->
             [name |-> Str(rt[i].name),
              group_column_names |->
                  IF Len(rt[i].group_column_names) > 0
                  THEN Known(rt[i].group_column_names) ELSE Null(<<>>)]])

\* "Map actions"
MapActions(ra) == IF Len(ra) > 0 THEN Known(ra) ELSE Null(<<>>)

\* filter and routing: a real name is stored; "" or "none" makes the field
\* null only when it was null or unknown, and otherwise leaves it as it was.
MapFilter(r, m) ==
    IF r # "" /\ r # "none" THEN Str(r)
    ELSE IF IsNull(m) \/ IsUnknown(m) THEN NullStr
    ELSE m

MapRouting(r, m) ==
    IF r # "" /\ r # "none" THEN Str(r)
    ELSE IF IsNull(m) \/ IsUnknown(m) THEN NullStr
    ELSE m

\* transform and enrichment: a real name is stored; "" or "none" is null.
MapTransform(r) == IF r # "" /\ r # "none" THEN Str(r) ELSE NullStr

MapEnrichment(r) == IF r # "" /\ r # "none" THEN Str(r) ELSE NullStr

StatusInfoAttrs == {"state", "created_at", "updated_at", "last_error"}

NullStatusInfo == [k |-> "null", a |-> [f \in StatusInfoAttrs |-> NullStr]]
UnknownStatusInfo == [k |-> "unknown", a |-> [f \in StatusInfoAttrs |-> NullStr]]

\* A variant of the status_info rule that leaves the model's value alone
\* whenever the response carries no status data.
MapStatusInfoKept(rs, m) ==
    LET statusInfoHasData == rs.state # "" \/ rs.created_at # "" \/ rs.updated_at # ""
    IN IF statusInfoHasData
       THEN [k |-> "value", a |-> [f \in StatusInfoAttrs |-> Str(rs[f])]]
       ELSE m

\* A variant of the status_info rule that resets a known prior value when
\* the response carries no status data.
MapStatusInfoReset(rs, m) ==
    LET statusInfoHasData == rs.state # "" \/ rs.created_at # "" \/ rs.updated_at # ""
    IN IF statusInfoHasData
       THEN [k |-> "value", a |-> [f \in StatusInfoAttrs |-> Str(rs[f])]]
       ELSE IF IsNull(m) \/ IsUnknown(m)
       THEN [k |-> "value", a |-> [f \in StatusInfoAttrs |-> Str("")]]
       ELSE NullStatusInfo

\* "Status info": overwritten only when the response carries a state or a
\* timestamp; a null or unknown prior becomes a record of empty strings; a
\* known prior is kept.
MapStatusInfo(rs, m) ==
    LET statusInfoHasData == rs.state # "" \/ rs.created_at # "" \/ rs.updated_at # ""
    IN IF statusInfoHasData
       THEN [k |-> "value", a |-> [f \in StatusInfoAttrs |-> Str(rs[f])]]
       ELSE IF IsNull(m) \/ IsUnknown(m)
       THEN [k |-> "value", a |-> [f \in StatusInfoAttrs |-> Str("")]]
       ELSE m

\* SinkConsumerResource.mapResponseToModel: the model after the call, from
\* the response and the model before it (plan on Create and Update, prior
\* state on Read).
SinkMapResponseToModel(response, model) ==
    [id |-> Str(response.id),
     name |-> Str(response.name),
     status |-> Str(response.status),
     database |-> Str(response.database),
     source |-> MapSource(response.source),
     tables |-> MapTables(response.tables),
     actions |-> MapActions(response.actions),
     destination |-> MapDestination(response.destination, model.destination),
     filter |-> MapFilter(response.filter, model.filter),
     transform |-> MapTransform(response.transform),
     enrichment |-> MapEnrichment(response.enrichment),
     routing |-> MapRouting(response.routing, model.routing),
     message_grouping |-> Known(response.message_grouping),
     batch_size |-> Known(response.batch_size),
     max_retry_count |->
         IF response.max_retry_count.set
         THEN Known(response.max_retry_count.v) ELSE Null(0),
     load_shedding_policy |-> Str(response.load_shedding_policy),
     timestamp_format |-> Str(response.timestamp_format),
     status_info |-> MapStatusInfo(response.status_info, model.status_info)]

----------------------------------------------------------------------------
(* sequin_sink_consumer: the request Create and Update build from the plan *)

\* "Parse destination": every attribute that is not null is copied with
\* ValueString() / ValueBool(); nothing depends on the destination type.
\* (Create lines 420-489; Update repeats the same statements at 682-751.)
RequestDestination(dest) ==
    [f \in DestAttrs \cup {"type"} |->
        IF f \in DestBoolAttrs
        THEN (IF ~IsNull(dest.a[f]) THEN Ptr(dest.a[f].v) ELSE Nil(FALSE))
        ELSE (IF f = "type" \/ ~IsNull(dest.a[f]) THEN dest.a[f].v ELSE "")]

EmptySourceWire == [f \in SourceLists |-> <<>>]

\* Create, "Parse source": exclude_schemas is read inside the branch that
\* found include_schemas set.
CreateRequestSource(source) ==
    IF IsNull(source) THEN Nil(EmptySourceWire)
    ELSE Ptr([include_schemas |-> source.a.include_schemas.v,
              exclude_schemas |->
                  IF ~IsNull(source.a.include_schemas)
                  THEN source.a.exclude_schemas.v ELSE <<>>,
              include_tables |-> source.a.include_tables.v,
              exclude_tables |-> source.a.exclude_tables.v])

\* Update, "Parse source": the four lists are read independently.
UpdateRequestSource(source) ==
    IF IsNull(source) THEN Nil(EmptySourceWire)
    ELSE Ptr([f \in SourceLists |-> source.a[f].v])

\* The fields of the request that Create and Update build alike.
RequestCommon(data) ==
    [name |-> data.name.v,
     database |-> data.database.v,
     status |-> data.status.v,
     tables |-> [i \in 1..Len(data.tables.v) |->
                   [name |-> data.tables.v[i].name.v,
                    group_column_names |-> data.tables.v[i].group_column_names.v]],
     actions |-> data.actions.v,
     destination |-> RequestDestination(data.destination),
     filter |-> data.filter.v,
     transform |-> data.transform.v,
     enrichment |-> data.enrichment.v,
     routing |-> data.routing.v,
     load_shedding_policy |-> data.load_shedding_policy.v,
     timestamp_format |-> data.timestamp_format.v,
     message_grouping |->
         IF ~IsNull(data.message_grouping)
         THEN Ptr(data.message_grouping.v) ELSE Nil(FALSE),
     batch_size |->
         IF ~IsNull(data.batch_size) THEN Ptr(data.batch_size.v) ELSE Nil(0),
     max_retry_count |->
         IF ~IsNull(data.max_retry_count)
         THEN Ptr(data.max_retry_count.v) ELSE Nil(0)]

WithSource(req, src) == [f \in DOMAIN req \cup {"source"} |-> IF f = "source" THEN src ELSE req[f]]

SinkCreateRequest(data) == WithSource(RequestCommon(data), CreateRequestSource(data.source))

SinkUpdateRequest(plan) == WithSource(RequestCommon(plan), UpdateRequestSource(plan.source))

----------------------------------------------------------------------------
(* The API client (internal/client).  An error value is its message, a     *)
(* sequence of text atoms; strings.Contains(msg, x) for an atom x is       *)
(* membership of x in the sequence.  The answer of the remote API to the   *)
(* one HTTP round trip of a call is the record `reply`:                    *)
(*   [transport |-> TRUE, cause]       HTTPClient.Do returned an error     *)
(*   [transport |-> FALSE, status, text, body]   an HTTP response; text is *)
(*       the body of an error response, body the decoded JSON of a         *)
(*       successful one.                                                   *)

\* The atoms of an identifier or an error body as it appears inside a message.
Atoms(str) ==
    CASE str = "sink-404" -> <<"sink-", "404">>
      [] str = "db-404" -> <<"db-", "404">>
      [] str = "bf-404" -> <<"bf-", "404">>
      [] str = "upstream not found" -> <<"upstream ", "not found">>
      [] OTHER -> <<str>>

Contains(msg, atom) == \E i \in 1..Len(msg) : msg[i] = atom

\* A variant of the classification that looks for the status code only.
IsNotFoundErrorByStatus(err) == err.failed /\ Contains(err.msg, "404")

\* IsNotFoundError
IsNotFoundError(err) ==
    IF ~err.failed THEN FALSE
    ELSE Contains(err.msg, "not found") \/ Contains(err.msg, "404")

NoError == [failed |-> FALSE, msg |-> <<>>]
Error(msg) == [failed |-> TRUE, msg |-> msg]

\* fmt.Errorf(prefix + "%w", err)
Wrap(prefix, err) == Error(<<prefix>> \o err.msg)

\* A variant that tries again after a transport failure or a 5xx answer.
AttemptsWithRetry(reply) == IF reply.transport \/ reply.status >= 500 THEN 2 ELSE 1

\* How many times a handler's one client call reaches HTTPClient.Do: each
\* handler calls one client method, which calls doRequest once, and
\* doRequest calls Do once, whatever the answer.
Attempts(reply) == 1

\* Client.doRequest: the only failure modelled is HTTPClient.Do's, whose
\* message names the method and the URL (json.Marshal and NewRequest do not
\* fail on these inputs).
DoRequest(method, path, reply) ==
    IF reply.transport
    THEN Error(<<"request failed: ", method, " ">> \o path \o <<": ", reply.cause>>)
    ELSE NoError

\* Client.handleResponse: a status of 400 or above is an error carrying the
\* status and the body.
HandleResponse(reply) ==
    IF reply.status >= 400
    THEN Error(<<"API error (status ", ToString(reply.status), "): ">> \o Atoms(reply.text))
    ELSE NoError

\* The common shape of CreateX / UpdateX: doRequest, then handleResponse
\* wrapped with the operation's prefix.
RequestThenHandle(method, path, prefix, reply) ==
    LET sent == DoRequest(method, path, reply)
    IN IF sent.failed THEN sent
       ELSE LET handled == HandleResponse(reply)
            IN IF handled.failed THEN Wrap(prefix, handled) ELSE NoError

\* The common shape of GetX: a 404 is turned into "<resource> not found: <id>"
\* before handleResponse sees the response.
GetThenHandle(path, noun, id, prefix, reply) ==
    LET sent == DoRequest("GET", path, reply)
    IN IF sent.failed THEN sent
       ELSE IF reply.status = 404
       THEN Error(<<noun, " ", "not found", ": ">> \o Atoms(id))
       ELSE LET handled == HandleResponse(reply)
            IN IF handled.failed THEN Wrap(prefix, handled) ELSE NoError

CreateSinkConsumer(req, reply) ==
    RequestThenHandle("POST", <<"/api/sinks">>, "failed to create sink consumer: ", reply)

GetSinkConsumer(id, reply) ==
    GetThenHandle(<<"/api/sinks/">> \o Atoms(id), "sink consumer", id,
                  "failed to get sink consumer: ", reply)

UpdateSinkConsumer(id, req, reply) ==
    RequestThenHandle("PUT", <<"/api/sinks/">> \o Atoms(id),
                      "failed to update sink consumer: ", reply)

----------------------------------------------------------------------------
(* sequin_sink_consumer: the handlers *)

\* A variant of DeleteX without the special case for 404.
DeleteThenHandleStrict(path, prefix, reply) ==
    RequestThenHandle("DELETE", path, prefix, reply)

\* The common shape of DeleteX: a 404 is success ("already deleted");
\* otherwise handleResponse with no target, wrapped with the prefix.
DeleteThenHandle(path, prefix, reply) ==
    LET sent == DoRequest("DELETE", path, reply)
    IN IF sent.failed THEN sent
       ELSE IF reply.status = 404 THEN NoError
       ELSE LET handled == HandleResponse(reply)
            IN IF handled.failed THEN Wrap(prefix, handled) ELSE NoError

DeleteSinkConsumer(id, reply) ==
    DeleteThenHandle(<<"/api/sinks/">> \o Atoms(id),
                     "failed to delete sink consumer: ", reply)

NullSinkModel ==
    [id |-> NullStr, name |-> NullStr, status |-> NullStr, database |-> NullStr,
     source |-> NullSource, tables |-> Null(<<>>), actions |-> Null(<<>>),
     destination |-> NullDest,
     filter |-> NullStr, transform |-> NullStr, enrichment |-> NullStr,
     routing |-> NullStr,
     message_grouping |-> Null(FALSE), batch_size |-> Null(0),
     max_retry_count |-> Null(0),
     load_shedding_policy |-> NullStr, timestamp_format |-> NullStr,
     status_info |-> NullStatusInfo]

\* The plan Terraform hands to Create (prior absent) and Update: the
\* configuration, where each Computed attribute the configuration leaves
\* null is unknown on Create and, by UseStateForUnknown, the prior state's
\* value on Update.
ComputedSinkAttrs ==
    {"id", "status", "message_grouping", "batch_size", "load_shedding_policy",
     "timestamp_format", "status_info"}

SinkPlan(config, prior) ==
    [f \in DOMAIN config |->
        IF f \in ComputedSinkAttrs /\ IsNull(config[f])
        THEN (IF prior.present /\ ~IsNull(prior.v[f]) THEN prior.v[f]
              ELSE [config[f] EXCEPT !.k = "unknown"])
        ELSE config[f]]

Absent(nullModel) == [present |-> FALSE, v |-> nullModel]
Present(model) == [present |-> TRUE, v |-> model]

\* What a handler invocation leaves behind for the caller.
Outcome(op, outcome, calls, diag, plan, reply) ==
    [op |-> op, outcome |-> outcome, calls |-> calls, diag |-> diag,
     plan |-> plan, reply |-> reply, sent |-> <<>>]

\* The same, with the path and the body of the request the handler sent.
Sent(o, path, body) == [o EXCEPT !.sent = [path |-> path, body |-> body]]

\* A variant of the error return that drops the resource when the error
\* reads as not-found, the way Read does.
StateAfterErrorDropsNotFound(prior, err) ==
    IF IsNotFoundError(err) THEN [prior EXCEPT !.present = FALSE] ELSE prior

\* A variant of the error return that saves the resource as absent.
StateAfterErrorCleared(prior, err) == [prior EXCEPT !.present = FALSE]

\* A handler that returns after AddError never reaches State.Set or
\* RemoveResource: the response keeps the state the request came with.
StateAfterError(prior, err) == prior

\* resp.Diagnostics.AddError(summary, detail)
Diag(summary, detail) == [summary |-> summary, detail |-> detail]
NoDiag == Diag("", <<>>)

\* Create: after mapResponseToModel the destination is put back from the
\* plan, and source, transform and enrichment are put back to null when the
\* plan had them null.
SinkCreateState(data, created) ==
    LET mapped == SinkMapResponseToModel(created, data)
    IN [mapped EXCEPT
          !.destination = data.destination,
          !.source = IF IsNull(data.source) THEN NullSource ELSE @,
          !.transform = IF IsNull(data.transform) THEN NullStr ELSE @,
          !.enrichment = IF IsNull(data.enrichment) THEN NullStr ELSE @]

SinkCreateStep(config, reply) ==
    LET data == SinkPlan(config, state)
        createReq == SinkCreateRequest(data)
        err == CreateSinkConsumer(createReq, reply)
    IN IF err.failed
       THEN /\ state' = StateAfterError(state, err)
            /\ last' = Outcome("Create", "error", Attempts(reply),
                               Diag("Error Creating Sink Consumer",
                                    <<"Could not create sink consumer: ">> \o err.msg),
                               data, reply)
       ELSE /\ state' = Present(SinkCreateState(data, reply.body))
            /\ last' = Outcome("Create", "ok", Attempts(reply), NoDiag, data, reply)

SinkReadStep(reply) ==
    LET data == state.v
        consumerID == data.id.v
        err == GetSinkConsumer(consumerID, reply)
    IN IF err.failed
       THEN IF IsNotFoundError(err)
            THEN /\ state' = Absent(NullSinkModel)
                 /\ last' = Outcome("Read", "removed", Attempts(reply), NoDiag, <<>>, reply)
            ELSE /\ state' = StateAfterError(state, err)
                 /\ last' = Outcome("Read", "error", Attempts(reply),
                                    Diag("Error Reading Sink Consumer",
                                         <<"Could not read sink consumer ID ">>
                                         \o Atoms(consumerID) \o <<": ">> \o err.msg),
                                    <<>>, reply)
       ELSE /\ state' = Present(SinkMapResponseToModel(reply.body, data))
            /\ last' = Outcome("Read", "ok", Attempts(reply), NoDiag, <<>>, reply)

\* A variant of Update that merges the response into the prior state
\* instead of the plan.
SinkUpdateStateFromPrior(plan, prior, updated) ==
    SinkMapResponseToModel(updated, prior)

\* Update, "Map response to model": the response is merged into the plan;
\* the prior state only supplies the id of the call.
SinkUpdateState(plan, prior, updated) ==
    SinkMapResponseToModel(updated, plan)

SinkUpdateStep(config, reply) ==
    LET plan == SinkPlan(config, state)
        updateReq == SinkUpdateRequest(plan)
        consumerID == state.v.id.v
        err == UpdateSinkConsumer(consumerID, updateReq, reply)
    IN IF err.failed
       THEN /\ state' = StateAfterError(state, err)
            /\ last' = Outcome("Update", "error", Attempts(reply),
                               Diag("Error Updating Sink Consumer",
                                    <<"Could not update sink consumer ID ">>
                                    \o Atoms(consumerID) \o <<": ">> \o err.msg),
                               plan, reply)
       ELSE /\ state' = Present(SinkUpdateState(plan, state.v, reply.body))
            /\ last' = Outcome("Update", "ok", Attempts(reply), NoDiag, plan, reply)

\* Delete: on success Terraform removes the resource from the state.
SinkDeleteStep(reply) ==
    LET data == state.v
        consumerID == data.id.v
        err == DeleteSinkConsumer(consumerID, reply)
    IN IF err.failed
       THEN /\ state' = StateAfterError(state, err)
            /\ last' = Outcome("Delete", "error", Attempts(reply),
                               Diag("Error Deleting Sink Consumer",
                                    <<"Could not delete sink consumer ID ">>
                                    \o Atoms(consumerID) \o <<": ">> \o err.msg),
                               <<>>, reply)
       ELSE /\ state' = Absent(NullSinkModel)
            /\ last' = Outcome("Delete", "ok", Attempts(reply), NoDiag, <<>>, reply)

\* ImportState: ImportStatePassthroughID sets the id attribute and nothing else.
SinkImportStep(id) ==
    /\ state' = Present([NullSinkModel EXCEPT !.id = Str(id)])
    /\ last' = Outcome("Import", "ok", 0, NoDiag, <<>>, <<>>)

----------------------------------------------------------------------------
(* sequin_database *)

PrimaryAttrs == {"hostname", "database", "username", "password", "port", "ssl"}

NullPrimary ==
    [k |-> "null",
     a |-> [hostname |-> NullStr, database |-> NullStr, username |-> NullStr,
            password |-> NullStr, port |-> Null(0), ssl |-> Null(FALSE)]]

NullDatabaseModel ==
    [id |-> NullStr, name |-> NullStr, url |-> NullStr, hostname |-> NullStr,
     port |-> Null(0), database |-> NullStr, username |-> NullStr,
     password |-> NullStr, ssl |-> Null(FALSE), ipv6 |-> Null(FALSE),
     replication_slots |-> Null(<<>>), primary |-> NullPrimary,
     use_local_tunnel |-> Null(FALSE), pool_size |-> Null(0),
     queue_interval |-> Null(0), queue_target |-> Null(0)]

\* "Map replication slots"
MapReplicationSlots(rs) ==
    Known([i \in 1..Len(rs) |->
             [id |-> Str(rs[i].id),
              publication_name |-> Str(rs[i].publication_name),
              slot_name |-> Str(rs[i].slot_name),
              status |-> StringOrNull(rs[i].status)]])

\* "Map primary database if present": every attribute, the password
\* included, is taken from the response.
MapPrimary(rp) ==
    IF rp.set
    THEN [k |-> "value",
          a |-> [hostname |-> Str(rp.v.hostname),
                 database |-> Str(rp.v.database),
                 username |-> Str(rp.v.username),
                 password |-> Str(rp.v.password),
                 port |-> IF rp.v.port.set THEN Known(rp.v.port.v) ELSE Null(0),
                 ssl |-> IF rp.v.ssl.set THEN Known(rp.v.ssl.v) ELSE Null(FALSE)]]
    ELSE NullPrimary

\* A variant that takes the password from the response.
MapPasswordFromResponse(response, model) == Str(response.password)

\* "Password is obfuscated in response, keep from state": the merge has no
\* assignment to model.Password.
MapPassword(response, model) == model.password

\* DatabaseResource.mapResponseToModel: url and password are the two
\* attributes it never assigns.
DatabaseMapResponseToModel(response, model) ==
    [model EXCEPT
       !.id = Str(response.id),
       !.name = Str(response.name),
       !.hostname = Str(response.hostname),
       !.port = Known(response.port),
       !.database = Str(response.database),
       !.username = Str(response.username),
       !.password = MapPassword(response, model),
       !.ssl = Known(response.ssl),
       !.ipv6 = Known(response.ipv6),
       !.use_local_tunnel = Known(response.use_local_tunnel),
       !.pool_size = Known(response.pool_size),
       !.queue_interval = Known(response.queue_interval),
       !.queue_target = Known(response.queue_target),
       !.replication_slots = MapReplicationSlots(response.replication_slots),
       !.primary = MapPrimary(response.primary)]

\* The plan: id is the only Computed attribute with UseStateForUnknown; the
\* other Computed attributes the configuration leaves null are unknown.
DatabasePlan(config, prior) ==
    [f \in DOMAIN config |->
        IF f = "id"
        THEN (IF prior.present /\ ~IsNull(prior.v.id) THEN prior.v.id ELSE Unknown(""))
        ELSE IF f \in {"port", "ssl", "ipv6", "use_local_tunnel", "pool_size",
                       "queue_interval", "queue_target"} /\ IsNull(config[f])
        THEN [config[f] EXCEPT !.k = "unknown"]
        ELSE config[f]]

\* Create, "Build API request".  Slots are sent without an ID.
DatabaseCreateRequest(data) ==
    [name |-> data.name.v, url |-> data.url.v, hostname |-> data.hostname.v,
     port |-> IF ~IsNull(data.port) THEN Ptr(data.port.v) ELSE Nil(0),
     database |-> data.database.v, username |-> data.username.v,
     password |-> data.password.v,
     ssl |-> IF ~IsNull(data.ssl) THEN Ptr(data.ssl.v) ELSE Nil(FALSE),
     ipv6 |-> IF ~IsNull(data.ipv6) THEN Ptr(data.ipv6.v) ELSE Nil(FALSE),
     replication_slots |->
         [i \in 1..Len(data.replication_slots.v) |->
            [id |-> "",
             publication_name |-> data.replication_slots.v[i].publication_name.v,
             slot_name |-> data.replication_slots.v[i].slot_name.v,
             status |-> data.replication_slots.v[i].status.v]],
     primary |->
         IF ~IsNull(data.primary)
         THEN Ptr([hostname |-> data.primary.a.hostname.v,
                   database |-> data.primary.a.database.v,
                   username |-> data.primary.a.username.v,
                   password |-> data.primary.a.password.v,
                   port |-> IF ~IsNull(data.primary.a.port)
                            THEN Ptr(data.primary.a.port.v) ELSE Nil(0),
                   ssl |-> IF ~IsNull(data.primary.a.ssl)
                           THEN Ptr(data.primary.a.ssl.v) ELSE Nil(FALSE)])
         ELSE Nil(<<>>)]

CreateDatabase(req, reply) ==
    RequestThenHandle("POST", <<"/api/postgres_databases">>,
                      "failed to create database: ", reply)

GetDatabase(id, reply) ==
    GetThenHandle(<<"/api/postgres_databases/">> \o Atoms(id), "database", id,
                  "failed to get database: ", reply)

DatabaseCreateStep(config, reply) ==
    LET data == DatabasePlan(config, state)
        createReq == DatabaseCreateRequest(data)
        err == CreateDatabase(createReq, reply)
    IN IF err.failed
       THEN /\ state' = StateAfterError(state, err)
            /\ last' = Outcome("Create", "error", Attempts(reply),
                               Diag("Error Creating Database",
                                    <<"Could not create database: ">> \o err.msg),
                               data, reply)
       ELSE /\ state' = Present(DatabaseMapResponseToModel(reply.body, data))
            /\ last' = Outcome("Create", "ok", Attempts(reply), NoDiag, data, reply)

DatabaseReadStep(reply) ==
    LET data == state.v
        dbID == data.id.v
        err == GetDatabase(dbID, reply)
    IN IF err.failed
       THEN IF IsNotFoundError(err)
            THEN /\ state' = Absent(NullDatabaseModel)
                 /\ last' = Outcome("Read", "removed", Attempts(reply), NoDiag, <<>>, reply)
            ELSE /\ state' = StateAfterError(state, err)
                 /\ last' = Outcome("Read", "error", Attempts(reply),
                                    Diag("Error Reading Database",
                                         <<"Could not read database ID ">>
                                         \o Atoms(dbID) \o <<": ">> \o err.msg),
                                    <<>>, reply)
       ELSE /\ state' = Present(DatabaseMapResponseToModel(reply.body, data))
            /\ last' = Outcome("Read", "ok", Attempts(reply), NoDiag, <<>>, reply)

\* A variant of the update request that never sends a slot's ID.
DatabaseUpdateRequestNoIds(plan) == DatabaseCreateRequest(plan)

\* Update, "Build update request (same structure as create)": the slots
\* carry their ID when the plan has one.
DatabaseUpdateRequest(plan) ==
    [DatabaseCreateRequest(plan) EXCEPT
       !.replication_slots =
           [i \in 1..Len(plan.replication_slots.v) |->
              [@[i] EXCEPT !.id = IF ~IsNull(plan.replication_slots.v[i].id)
                                  THEN plan.replication_slots.v[i].id.v ELSE ""]]]

UpdateDatabase(id, req, reply) ==
    RequestThenHandle("PUT", <<"/api/postgres_databases/">> \o Atoms(id),
                      "failed to update database: ", reply)

DeleteDatabase(id, reply) ==
    DeleteThenHandle(<<"/api/postgres_databases/">> \o Atoms(id),
                     "failed to delete database: ", reply)

DatabaseUpdateStep(config, reply) ==
    LET plan == DatabasePlan(config, state)
        updateReq == DatabaseUpdateRequest(plan)
        dbID == state.v.id.v
        err == UpdateDatabase(dbID, updateReq, reply)
    IN IF err.failed
       THEN /\ state' = StateAfterError(state, err)
            /\ last' = Outcome("Update", "error", Attempts(reply),
                               Diag("Error Updating Database",
                                    <<"Could not update database ID ">>
                                    \o Atoms(dbID) \o <<": ">> \o err.msg),
                               plan, reply)
       ELSE /\ state' = Present(DatabaseMapResponseToModel(reply.body, plan))
            /\ last' = Outcome("Update", "ok", Attempts(reply), NoDiag, plan, reply)

DatabaseDeleteStep(reply) ==
    LET data == state.v
        dbID == data.id.v
        err == DeleteDatabase(dbID, reply)
    IN IF err.failed
       THEN /\ state' = StateAfterError(state, err)
            /\ last' = Outcome("Delete", "error", Attempts(reply),
                               Diag("Error Deleting Database",
                                    <<"Could not delete database ID ">>
                                    \o Atoms(dbID) \o <<": ">> \o err.msg),
                               <<>>, reply)
       ELSE /\ state' = Absent(NullDatabaseModel)
            /\ last' = Outcome("Delete", "ok", Attempts(reply), NoDiag, <<>>, reply)

DatabaseImportStep(id) ==
    /\ state' = Present([NullDatabaseModel EXCEPT !.id = Str(id)])
    /\ last' = Outcome("Import", "ok", 0, NoDiag, <<>>, <<>>)

----------------------------------------------------------------------------
(* sequin_backfill *)

\* Status is a pointer to BackfillStatus: nil before the first merge.
NullBackfillModel ==
    [id |-> NullStr, sink_consumer |-> NullStr, table |-> NullStr,
     state |-> NullStr, status |-> Nil(<<>>)]

\* A variant that keeps the model's table.
MapBackfillTableKept(backfill, data) == data.table

\* `data.Table = types.StringValue(backfill.Table)`
MapBackfillTable(backfill, data) == Str(backfill.table)

\* A variant that always takes the response's consumer name.
MapBackfillSinkConsumerFromResponse(backfill, data) == Str(backfill.sink_consumer)

\* "Keep sink_consumer from state/plan": the response's consumer name is
\* used only when the model's is null, unknown or empty.
MapBackfillSinkConsumer(backfill, data) ==
    IF IsNull(data.sink_consumer) \/ IsUnknown(data.sink_consumer)
       \/ data.sink_consumer.v = ""
    THEN Str(backfill.sink_consumer)
    ELSE data.sink_consumer

\* mapBackfillResponseToModel
MapBackfillResponseToModel(backfill, data) ==
    [id |-> Str(backfill.id),
     table |-> MapBackfillTable(backfill, data),
     state |-> Str(backfill.state),
     sink_consumer |-> MapBackfillSinkConsumer(backfill, data),
     status |-> Ptr([state |-> backfill.state,
                     inserted_at |-> backfill.inserted_at,
                     updated_at |-> backfill.updated_at,
                     canceled_at |-> backfill.canceled_at,
                     completed_at |-> backfill.completed_at,
                     rows_ingested_count |-> backfill.rows_ingested_count,
                     rows_initial_count |-> backfill.rows_initial_count,
                     rows_processed_count |-> backfill.rows_processed_count,
                     sort_column |-> backfill.sort_column])]

\* The plan: id, table and state are Computed with UseStateForUnknown;
\* status is Computed without it (the pointer is nil for an unknown object).
BackfillPlan(config, prior) ==
    [f \in DOMAIN config |->
        IF f \in {"id", "table", "state"} /\ IsNull(config[f])
        THEN (IF prior.present /\ ~IsNull(prior.v[f]) THEN prior.v[f] ELSE Unknown(""))
        ELSE config[f]]

\* Create: the table is sent only when it is neither null nor unknown.
BackfillCreateRequest(data) ==
    [table |-> IF ~IsNull(data.table) /\ ~IsUnknown(data.table)
               THEN data.table.v ELSE ""]

\* fmt.Sprintf("/api/sinks/%s/backfills", sinkIDOrName)
BackfillsPath(sinkIDOrName) ==
    <<"/api/sinks/">> \o Atoms(sinkIDOrName) \o <<"/backfills">>

\* fmt.Sprintf("/api/sinks/%s/backfills/%s", sinkIDOrName, backfillID)
BackfillPath(sinkIDOrName, backfillID) ==
    <<"/api/sinks/">> \o Atoms(sinkIDOrName) \o <<"/backfills/">>
    \o Atoms(backfillID)

CreateBackfill(sinkIDOrName, req, reply) ==
    RequestThenHandle("POST", BackfillsPath(sinkIDOrName),
                      "failed to create backfill: ", reply)

GetBackfill(sinkIDOrName, backfillID, reply) ==
    GetThenHandle(BackfillPath(sinkIDOrName, backfillID),
                  "backfill", backfillID, "failed to get backfill: ", reply)

UpdateBackfill(sinkIDOrName, backfillID, req, reply) ==
    RequestThenHandle("PATCH", BackfillPath(sinkIDOrName, backfillID),
                      "failed to update backfill: ", reply)

DeleteBackfill(sinkIDOrName, backfillID, reply) ==
    DeleteThenHandle(BackfillPath(sinkIDOrName, backfillID),
                     "failed to delete backfill: ", reply)

BackfillCreateStep(config, reply) ==
    LET data == BackfillPlan(config, state)
        createReq == BackfillCreateRequest(data)
        err == CreateBackfill(data.sink_consumer.v, createReq, reply)
    IN IF err.failed
       THEN /\ state' = StateAfterError(state, err)
            /\ last' = Sent(Outcome("Create", "error", Attempts(reply),
                                    Diag("Error Creating Backfill",
                                         <<"Could not create backfill: ">> \o err.msg),
                                    data, reply),
                            BackfillsPath(data.sink_consumer.v), createReq)
       ELSE /\ state' = Present(MapBackfillResponseToModel(reply.body, data))
            /\ last' = Sent(Outcome("Create", "ok", Attempts(reply), NoDiag, data, reply),
                            BackfillsPath(data.sink_consumer.v), createReq)

BackfillReadStep(reply) ==
    LET data == state.v
        backfillID == data.id.v
        err == GetBackfill(data.sink_consumer.v, backfillID, reply)
    IN IF err.failed
       THEN IF IsNotFoundError(err)
            THEN /\ state' = Absent(NullBackfillModel)
                 /\ last' = Sent(Outcome("Read", "removed", Attempts(reply), NoDiag, <<>>, reply),
                                 BackfillPath(data.sink_consumer.v, backfillID), <<>>)
            ELSE /\ state' = StateAfterError(state, err)
                 /\ last' = Sent(Outcome("Read", "error", Attempts(reply),
                                         Diag("Error Reading Backfill",
                                              <<"Could not read backfill ID ">>
                                              \o Atoms(backfillID) \o <<": ">>
                                              \o err.msg),
                                         <<>>, reply),
                                 BackfillPath(data.sink_consumer.v, backfillID), <<>>)
       ELSE /\ state' = Present(MapBackfillResponseToModel(reply.body, data))
            /\ last' = Sent(Outcome("Read", "ok", Attempts(reply), NoDiag, <<>>, reply),
                            BackfillPath(data.sink_consumer.v, backfillID), <<>>)

\* Update: the state is sent only when it is neither null nor unknown; the
\* call is keyed by the prior state's sink_consumer and id.
\* A variant of the update request that leaves the state out.
BackfillUpdateRequestEmpty(plan) == [state |-> ""]

\* Update: the state is sent when the plan's is neither null nor unknown.
BackfillUpdateRequest(plan) ==
    [state |-> IF ~IsNull(plan.state) /\ ~IsUnknown(plan.state)
               THEN plan.state.v ELSE ""]

BackfillUpdateStep(config, reply) ==
    LET plan == BackfillPlan(config, state)
        backfillID == state.v.id.v
        sinkConsumer == state.v.sink_consumer.v
        updateReq == BackfillUpdateRequest(plan)
        err == UpdateBackfill(sinkConsumer, backfillID, updateReq, reply)
    IN IF err.failed
       THEN /\ state' = StateAfterError(state, err)
            /\ last' = Sent(Outcome("Update", "error", Attempts(reply),
                                    Diag("Error Updating Backfill",
                                         <<"Could not update backfill ID ">>
                                         \o Atoms(backfillID) \o <<": ">> \o err.msg),
                                    plan, reply),
                            BackfillPath(sinkConsumer, backfillID), updateReq)
       ELSE /\ state' = Present(MapBackfillResponseToModel(reply.body, plan))
            /\ last' = Sent(Outcome("Update", "ok", Attempts(reply), NoDiag, plan, reply),
                            BackfillPath(sinkConsumer, backfillID), updateReq)

BackfillDeleteStep(reply) ==
    LET data == state.v
        backfillID == data.id.v
        sinkConsumer == data.sink_consumer.v
        err == DeleteBackfill(sinkConsumer, backfillID, reply)
    IN IF err.failed
       THEN /\ state' = StateAfterError(state, err)
            /\ last' = Sent(Outcome("Delete", "error", Attempts(reply),
                                    Diag("Error Deleting Backfill",
                                         <<"Could not delete backfill ID ">>
                                         \o Atoms(backfillID) \o <<": ">> \o err.msg),
                                    <<>>, reply),
                            BackfillPath(sinkConsumer, backfillID), <<>>)
       ELSE /\ state' = Absent(NullBackfillModel)
            /\ last' = Sent(Outcome("Delete", "ok", Attempts(reply), NoDiag, <<>>, reply),
                            BackfillPath(sinkConsumer, backfillID), <<>>)

\* An import identifier is a sequence of pieces of text; the piece "/" is
\* the separator and no other piece contains it.  Text is the string the
\* pieces spell.
RECURSIVE Text(_)
Text(pieces) == IF pieces = <<>> THEN "" ELSE pieces[1] \o Text(Tail(pieces))

\* strings.Index: the position of the first sep, 0 when there is none.
Index(s, sep) ==
    IF \E i \in 1..Len(s) : s[i] = sep
    THEN CHOOSE i \in 1..Len(s) : s[i] = sep /\ \A j \in 1..(i - 1) : s[j] # sep
    ELSE 0

\* A variant of the split whose second part starts at the separator.
SplitNKeepSep(s, sep, n) ==
    LET i == Index(s, sep)
    IN IF i = 0 \/ n < 2 THEN <<s>>
       ELSE <<SubSeq(s, 1, i - 1), SubSeq(s, i, Len(s))>>

\* strings.SplitN(s, sep, n) for n = 2: the text before the first separator
\* and the whole text after it, or s alone when it has no separator.
SplitN(s, sep, n) ==
    LET i == Index(s, sep)
    IN IF i = 0 \/ n < 2 THEN <<s>>
       ELSE <<SubSeq(s, 1, i - 1), SubSeq(s, i + 1, Len(s))>>

\* ImportState: the identifier is split and checked; nothing is called.
BackfillImportStep(id) ==
    LET parts == SplitN(id, "/", 2)
    IN IF Len(parts) # 2 \/ parts[1] = <<>> \/ parts[2] = <<>>
       THEN /\ state' = state
            /\ last' = Outcome("Import", "error", 0,
                               Diag("Invalid Import ID",
                                    <<"Expected format: <sink_consumer>/<backfill_id>, got: ",
                                      Text(id)>>),
                               id, <<>>)
       ELSE /\ state' = Present([NullBackfillModel EXCEPT
                                   !.sink_consumer = Str(Text(parts[1])),
                                   !.id = Str(Text(parts[2]))])
            /\ last' = Outcome("Import", "ok", 0, NoDiag, id, <<>>)

----------------------------------------------------------------------------
(* Inputs of the sink consumer life cycle: the configurations the user may *)
(* write and the answers the remote API may give.                          *)

\* A destination object of the given kind whose attributes in DOMAIN sets
\* have the given values and whose other attributes are null.
DestObject(kind, sets) ==
    [k |-> "value",
     a |-> [f \in DestAttrs \cup {"type"} |->
              IF f = "type" THEN Str(kind)
              ELSE IF f \in DOMAIN sets THEN sets[f] ELSE NullDestAttrs[f]]]

\* The same for the destination of a response.
WireDestWith(kind, sets) ==
    [f \in DestAttrs \cup {"type"} |->
        IF f \in DOMAIN sets THEN sets[f] ELSE WireDest(kind)[f]]

RefAttrs == {"filter", "transform", "enrichment", "routing"}

KafkaPassword ==
    DestObject("kafka", [hosts |-> Str("h1"), topic |-> Str("t1"), password |-> Str("pw1")])
KafkaIam ==
    DestObject("kafka", [hosts |-> Str("h1"), aws_access_key_id |-> Str("ak1"),
                         aws_secret_access_key |-> Str("sk1")])
SqsKeys ==
    DestObject("sqs", [queue_url |-> Str("q1"), region |-> Str("r1"),
                       access_key_id |-> Str("ak1"), secret_access_key |-> Str("sk1")])
Webhook == DestObject("webhook", [http_endpoint |-> Str("u1")])
\* A webhook destination that also sets a kafka attribute.
WebhookWithTopic ==
    DestObject("webhook", [http_endpoint |-> Str("u1"), topic |-> Str("t1")])

\* A configuration: the required attributes, a destination, and either no
\* optional attribute or the four function references and a source filter.
SinkConfig(dest, rich) ==
    [NullSinkModel EXCEPT
       !.name = Str("sink1"),
       !.database = Str("db1"),
       !.tables = Known(<<[name |-> Str("public.users"),
                           group_column_names |-> Null(<<>>)]>>),
       !.destination = dest,
       !.filter = IF rich THEN Str("fn1") ELSE NullStr,
       !.transform = IF rich THEN Str("fn1") ELSE NullStr,
       !.enrichment = IF rich THEN Str("fn1") ELSE NullStr,
       !.routing = IF rich THEN Str("fn1") ELSE NullStr,
       !.source = IF rich
                  THEN [k |-> "value",
                        a |-> [NullSource.a EXCEPT
                                 !.include_schemas = Known(<<"public">>)]]
                  ELSE NullSource]

DesiredSinkConfigs ==
    {SinkConfig(d, FALSE) : d \in {KafkaPassword, KafkaIam, SqsKeys, Webhook, WebhookWithTopic}}
    \cup {SinkConfig(d, TRUE) : d \in {KafkaIam, Webhook}}

KafkaSnapshot == WireDestWith("kafka", [hosts |-> "h1", topic |-> "t1"])
\* The API echoes the password once and reports its default for tls.
KafkaEcho ==
    WireDestWith("kafka", [hosts |-> "h1", topic |-> "t1", password |-> "pw2",
                           tls |-> Ptr(FALSE)])
\* The API suppresses the topic.
KafkaNoTopic == WireDestWith("kafka", [hosts |-> "h1"])
SqsSnapshot == WireDestWith("sqs", [queue_url |-> "q1", region |-> "r1"])
WebhookSnapshot == WireDestWith("webhook", [http_endpoint |-> "u1"])

\* A response body.  ref is the value of the four function references;
\* full says whether the response carries a source filter and no status
\* data, or status data and no source filter.
SinkSnapshot(id, dest, ref, full) ==
    [id |-> id, name |-> "sink1", status |-> "active", database |-> "db1",
     source |-> IF full
                THEN Ptr([EmptySourceWire EXCEPT !.include_schemas = <<"public">>])
                ELSE Nil(EmptySourceWire),
     tables |-> <<[name |-> "public.users", group_column_names |-> <<>>]>>,
     actions |-> IF full THEN <<"insert", "update">> ELSE <<>>,
     destination |-> dest,
     filter |-> ref, transform |-> ref, enrichment |-> ref, routing |-> ref,
     message_grouping |-> TRUE, batch_size |-> 1,
     max_retry_count |-> IF full THEN Ptr(3) ELSE Nil(0),
     load_shedding_policy |-> "pause_on_full", timestamp_format |-> "iso8601",
     status_info |-> IF full
                     THEN [state |-> "", created_at |-> "", updated_at |-> "",
                           last_error |-> ""]
                     ELSE [state |-> "active", created_at |-> "c1",
                           updated_at |-> "u1", last_error |-> ""]]

SinkSnapshots ==
    {SinkSnapshot("sink-1", d, "none", FALSE) :
        d \in {KafkaSnapshot, KafkaEcho, KafkaNoTopic, SqsSnapshot, WebhookSnapshot}}
    \cup {SinkSnapshot("sink-1", d, "fn1", TRUE) : d \in {KafkaNoTopic, WebhookSnapshot}}

\* The answers to one round trip: a transport failure (the caller's context
\* cancelled, the connection refused), an error status with its body, or a
\* success with a decoded body.
TransportFailure(cause) == [transport |-> TRUE, cause |-> cause, status |-> 0,
                            text |-> "", body |-> <<>>]
HttpError(status, text) == [transport |-> FALSE, cause |-> "", status |-> status,
                            text |-> text, body |-> <<>>]
HttpOk(body) == [transport |-> FALSE, cause |-> "", status |-> 200,
                 text |-> "", body |-> body]

FailureReplies ==
    {TransportFailure("context canceled")}
    \cup {HttpError(st, "boom") : st \in {404, 500}}
    \cup {HttpError(500, "upstream not found")}

\* The answers to a DELETE: the failures, or a success with an empty body.
DeleteReplies == FailureReplies \cup {HttpOk(<<>>)}

SinkReplies == FailureReplies \cup {HttpOk(b) : b \in SinkSnapshots}

----------------------------------------------------------------------------
(* Inputs of the database and backfill life cycles *)

SlotConfig ==
    [id |-> NullStr, publication_name |-> Str("pub1"), slot_name |-> Str("slot1"),
     status |-> NullStr]

PrimaryConfig ==
    [k |-> "value",
     a |-> [hostname |-> Str("ph1"), database |-> Str("pdb1"), username |-> Str("pu1"),
            password |-> Str("ppw1"), port |-> Null(0), ssl |-> Null(FALSE)]]

\* A database configured by its parts, with or without a primary.
DatabaseConfig(withPrimary) ==
    [NullDatabaseModel EXCEPT
       !.name = Str("db1"), !.hostname = Str("h1"), !.database = Str("pg1"),
       !.username = Str("u1"), !.password = Str("pw1"),
       !.replication_slots = Known(<<SlotConfig>>),
       !.primary = IF withPrimary THEN PrimaryConfig ELSE NullPrimary]

\* A database configured by a connection URL.
DatabaseUrlConfig ==
    [NullDatabaseModel EXCEPT
       !.name = Str("db1"), !.url = Str("postgres://u1:pw1@h1/pg1"),
       !.replication_slots = Known(<<SlotConfig>>)]

DesiredDatabaseConfigs ==
    {DatabaseConfig(FALSE), DatabaseConfig(TRUE), DatabaseUrlConfig}

SlotWire(status) ==
    [id |-> "slot-1", publication_name |-> "pub1", slot_name |-> "slot1",
     status |-> status]

PrimaryWire(password) ==
    Ptr([hostname |-> "ph1", database |-> "pdb1", username |-> "pu1",
         password |-> password, port |-> Ptr(5432), ssl |-> Nil(FALSE)])

NoPrimaryWire ==
    Nil([hostname |-> "", database |-> "", username |-> "", password |-> "",
         port |-> Nil(0), ssl |-> Nil(FALSE)])

DatabaseSnapshot(id, slotStatus, primary) ==
    [id |-> id, name |-> "db1", hostname |-> "h1", port |-> 5432,
     database |-> "pg1", username |-> "u1", password |-> "********",
     ssl |-> TRUE, ipv6 |-> FALSE, use_local_tunnel |-> FALSE,
     pool_size |-> 10, queue_interval |-> 1000, queue_target |-> 50,
     replication_slots |-> <<SlotWire(slotStatus)>>,
     primary |-> primary]

DatabaseSnapshots ==
    {DatabaseSnapshot(id, "active", NoPrimaryWire) : id \in {"db-1", "db-404"}}
    \cup {DatabaseSnapshot("db-1", "", PrimaryWire(pw)) : pw \in {"ppw1", "********", ""}}

DatabaseReplies == FailureReplies \cup {HttpOk(b) : b \in DatabaseSnapshots}

BackfillConfig(table, st) ==
    [NullBackfillModel EXCEPT
       !.sink_consumer = Str("sink1"),
       !.table = IF table = "" THEN NullStr ELSE Str(table),
       !.state = IF st = "" THEN NullStr ELSE Str(st)]

DesiredBackfillConfigs ==
    {BackfillConfig("", ""), BackfillConfig("public.users", ""),
     BackfillConfig("", "active"), BackfillConfig("", "cancelled")}

\* Import identifiers: every sequence of up to MaxImportLen pieces.
MaxImportLen == 5

ImportPieces == {"sink1", "bf-1", "/"}

RECURSIVE SeqsUpTo(_)
SeqsUpTo(n) ==
    IF n = 0 THEN {<<>>}
    ELSE LET prev == SeqsUpTo(n - 1)
         IN prev \cup {Append(q, x) : q \in prev, x \in ImportPieces}

ImportIds == SeqsUpTo(MaxImportLen)

BackfillSnapshot(id, st, rows) ==
    [id |-> id, sink_consumer |-> "sink1", table |-> "public.users",
     state |-> st, inserted_at |-> "c1", updated_at |-> "u1",
     canceled_at |-> IF st = "cancelled" THEN "x1" ELSE "",
     completed_at |-> IF st = "completed" THEN "d1" ELSE "",
     rows_ingested_count |-> rows, rows_initial_count |-> 2,
     rows_processed_count |-> rows, sort_column |-> "id"]

\* A response that names another table and another parent.
BackfillMovedSnapshot ==
    [BackfillSnapshot("bf-1", "active", 0) EXCEPT !.table = "public.orders",
                                                  !.sink_consumer = "sink-9"]

BackfillSnapshots ==
    {BackfillSnapshot("bf-1", "active", r) : r \in {0, 1}}
    \cup {BackfillSnapshot("bf-1", st, 2) : st \in {"completed", "cancelled"}}
    \cup {BackfillSnapshot("bf-404", "active", 0)}
    \cup {BackfillMovedSnapshot}

BackfillReplies == FailureReplies \cup {HttpOk(b) : b \in BackfillSnapshots}

----------------------------------------------------------------------------
(* The life cycle of one resource instance *)

\* A field of a response destination that the response leaves out.
WireAttrEmpty(rd, f) == IF f \in DestBoolAttrs THEN ~rd[f].set ELSE rd[f] = ""

\* A response destination of the given kind that carries only that kind's fields.
SnapshotOfKind(rd, kind) ==
    /\ rd.type = kind
    /\ \A f \in DestAttrs \ KindAttrs(kind) : WireAttrEmpty(rd, f)

\* A destination object of the given kind that sets only that kind's attributes.
DestOnlyOfKind(dest, kind) ==
    /\ dest.k = "value"
    /\ dest.a.type = Str(kind)
    /\ \A f \in DestAttrs \ KindAttrs(kind) : IsNull(dest.a[f])

\* A destination object that sets an attribute its kind does not own.
CrossKind(dest) ==
    /\ dest.k = "value"
    /\ \E f \in DestAttrs \ KindAttrs(dest.a.type.v) : ~IsNull(dest.a[f])

KafkaAttrsAbsent(model) ==
    \A f \in KindAttrs("kafka") : IsNull(model.destination.a[f])

\* The history variable.  switched: the run's last successful write was an
\* Update from a kafka destination with hosts, topic and password to a
\* webhook-only one, answered with a webhook snapshot, and every Read since
\* then has failed or returned a webhook snapshot.
HistNext ==
    hist' =
      [switched |->
         /\ rtype = "sink_consumer"
         /\ \/ /\ last'.op = "Update" /\ last'.outcome = "ok"
               /\ state.v.destination.k = "value"
               /\ state.v.destination.a.type = Str("kafka")
               /\ \A f \in {"hosts", "topic", "password"} :
                     ~IsNull(state.v.destination.a[f])
               /\ DestOnlyOfKind(last'.plan.destination, "webhook")
               /\ SnapshotOfKind(last'.reply.body.destination, "webhook")
            \/ /\ hist.switched
               /\ last'.op = "Read"
               /\ \/ last'.outcome = "error"
                  \/ /\ last'.outcome = "ok"
                     /\ SnapshotOfKind(last'.reply.body.destination, "webhook")]

ResourceTypes == {"sink_consumer", "database", "backfill"}

NullModel(rt) ==
    CASE rt = "sink_consumer" -> NullSinkModel
      [] rt = "database" -> NullDatabaseModel
      [] rt = "backfill" -> NullBackfillModel

Idle == Outcome("none", "none", 0, NoDiag, <<>>, <<>>)

Init ==
    /\ rtype \in ResourceTypes
    /\ state = Absent(NullModel(rtype))
    /\ last = Idle
    /\ hist = [switched |-> FALSE]

SinkCreate ==
    /\ rtype = "sink_consumer"
    /\ ~state.present
    /\ \E config \in DesiredSinkConfigs, reply \in SinkReplies :
          SinkCreateStep(config, reply)
    /\ HistNext
    /\ UNCHANGED rtype

SinkRead ==
    /\ rtype = "sink_consumer"
    /\ state.present
    /\ \E reply \in SinkReplies : SinkReadStep(reply)
    /\ HistNext
    /\ UNCHANGED rtype

SinkUpdate ==
    /\ rtype = "sink_consumer"
    /\ state.present
    /\ \E config \in DesiredSinkConfigs, reply \in SinkReplies :
          SinkUpdateStep(config, reply)
    /\ HistNext
    /\ UNCHANGED rtype

SinkImport ==
    /\ rtype = "sink_consumer"
    /\ ~state.present
    /\ \E id \in {"sink-1"} : SinkImportStep(id)
    /\ HistNext
    /\ UNCHANGED rtype

DatabaseCreate ==
    /\ rtype = "database"
    /\ ~state.present
    /\ \E config \in DesiredDatabaseConfigs, reply \in DatabaseReplies :
          DatabaseCreateStep(config, reply)
    /\ HistNext
    /\ UNCHANGED rtype

DatabaseRead ==
    /\ rtype = "database"
    /\ state.present
    /\ \E reply \in DatabaseReplies : DatabaseReadStep(reply)
    /\ HistNext
    /\ UNCHANGED rtype

DatabaseImport ==
    /\ rtype = "database"
    /\ ~state.present
    /\ \E id \in {"db-1", "db-404"} : DatabaseImportStep(id)
    /\ HistNext
    /\ UNCHANGED rtype

BackfillCreate ==
    /\ rtype = "backfill"
    /\ ~state.present
    /\ \E config \in DesiredBackfillConfigs, reply \in BackfillReplies :
          BackfillCreateStep(config, reply)
    /\ HistNext
    /\ UNCHANGED rtype

BackfillRead ==
    /\ rtype = "backfill"
    /\ state.present
    /\ \E reply \in BackfillReplies : BackfillReadStep(reply)
    /\ HistNext
    /\ UNCHANGED rtype

SinkDelete ==
    /\ rtype = "sink_consumer"
    /\ state.present
    /\ \E reply \in DeleteReplies : SinkDeleteStep(reply)
    /\ HistNext
    /\ UNCHANGED rtype

DatabaseUpdate ==
    /\ rtype = "database"
    /\ state.present
    /\ \E config \in DesiredDatabaseConfigs, reply \in DatabaseReplies :
          DatabaseUpdateStep(config, reply)
    /\ HistNext
    /\ UNCHANGED rtype

DatabaseDelete ==
    /\ rtype = "database"
    /\ state.present
    /\ \E reply \in DeleteReplies : DatabaseDeleteStep(reply)
    /\ HistNext
    /\ UNCHANGED rtype

\* sink_consumer and table are RequiresReplace: Terraform calls Update only
\* for a plan that leaves both as they are in the state.
BackfillUpdate ==
    /\ rtype = "backfill"
    /\ state.present
    /\ \E config \in DesiredBackfillConfigs, reply \in BackfillReplies :
          /\ BackfillPlan(config, state).sink_consumer = state.v.sink_consumer
          /\ BackfillPlan(config, state).table = state.v.table
          /\ BackfillUpdateStep(config, reply)
    /\ HistNext
    /\ UNCHANGED rtype

BackfillDelete ==
    /\ rtype = "backfill"
    /\ state.present
    /\ \E reply \in DeleteReplies : BackfillDeleteStep(reply)
    /\ HistNext
    /\ UNCHANGED rtype

BackfillImport ==
    /\ rtype = "backfill"
    /\ ~state.present
    /\ \E id \in ImportIds : BackfillImportStep(id)
    /\ HistNext
    /\ UNCHANGED rtype

Next ==
    \/ SinkCreate
    \/ SinkRead
    \/ SinkUpdate
    \/ SinkImport
    \/ DatabaseCreate
    \/ DatabaseRead
    \/ DatabaseImport
    \/ BackfillCreate
    \/ BackfillRead
    \/ SinkDelete
    \/ DatabaseUpdate
    \/ DatabaseDelete
    \/ BackfillUpdate
    \/ BackfillDelete
    \/ BackfillImport

Spec == Init /\ [][Next]_vars

----------------------------------------------------------------------------
(* The merges on their own: a prior model and a response are drawn, the     *)
(* resource's merge is applied to them, and then once more to its own       *)
(* result with the same response.                                           *)

\* How many attributes of a prior destination are set at once.
MaxPriorAttrs == 2

RECURSIVE AttrSetsUpTo(_)
AttrSetsUpTo(n) ==
    IF n = 0 THEN {{}}
    ELSE LET prev == AttrSetsUpTo(n - 1)
         IN prev \cup {s \cup {a} : s \in prev, a \in DestAttrs}

\* Prior destinations: the null object, and kafka and webhook objects with
\* up to MaxPriorAttrs attributes set, of any kind's (Create stores the
\* plan's destination as it is).
PriorDests ==
    {NullDest} \cup
    {DestObject(kind, [f \in s |-> IF f \in DestBoolAttrs THEN Known(TRUE)
                                   ELSE Str("old")]) :
        kind \in {"kafka", "webhook"}, s \in AttrSetsUpTo(MaxPriorAttrs)}

\* Response destinations: each kind, with none or one of its own fields.
SnapshotDests ==
    {WireDest(kind) : kind \in DestKinds} \cup
    UNION {{WireDestWith(kind, [g \in {f} |-> IF f \in DestBoolAttrs THEN Ptr(FALSE)
                                              ELSE "new"]) :
               f \in KindAttrs(kind)} : kind \in DestKinds}

\* The state after an import and a first Read.
ImportedSink ==
    SinkMapResponseToModel(SinkSnapshot("sink-1", WebhookSnapshot, "none", FALSE),
                           [NullSinkModel EXCEPT !.id = Str("sink-1")])

\* Destination slice: every prior destination against every response
\* destination, with no routing function anywhere or with one in effect.
SinkDestMergeInputs ==
    {<<[ImportedSink EXCEPT !.destination = pd,
                            !.routing = IF routed THEN Str("fn1") ELSE NullStr],
       [SinkSnapshot("sink-1", sd, "none", FALSE)
           EXCEPT !.routing = IF routed THEN "fn1" ELSE "none"]>> :
        pd \in PriorDests, sd \in SnapshotDests, routed \in BOOLEAN}

PriorRefs == {NullStr, Unknown(""), Str("fn0")}

\* Reference slice: every combination of prior function references and prior
\* status_info against responses that name no function ("" or "none") or
\* one, with and without status data.
SinkRefMergeInputs ==
    {<<[ImportedSink EXCEPT !.filter = pf, !.transform = pt, !.enrichment = pe,
                            !.routing = pr, !.status_info = psi],
       SinkSnapshot("sink-1", KafkaNoTopic, ref, full)>> :
        pf \in PriorRefs, pt \in PriorRefs, pe \in PriorRefs, pr \in PriorRefs,
        psi \in {NullStatusInfo, UnknownStatusInfo, ImportedSink.status_info},
        ref \in {"", "none", "fn1"}, full \in BOOLEAN}

\* Collection slice: a response source that is missing or has any subset of
\* its lists filled, with and without actions and grouping columns, against
\* a prior model without and with a source and actions.
SourceWire(S) ==
    Ptr([f \in SourceLists |-> IF f \in S THEN <<"s2", "s1">> ELSE <<>>])

SinkCollectionMergeInputs ==
    {<<prior,
       [SinkSnapshot("sink-1", WebhookSnapshot, "none", FALSE)
           EXCEPT !.source = src,
                  !.actions = acts,
                  !.tables = <<[name |-> "public.users",
                                group_column_names |-> cols]>>]>> :
        prior \in {ImportedSink,
                   [ImportedSink EXCEPT
                      !.source = [k |-> "value",
                                  a |-> [f \in SourceLists |-> Known(<<"old">>)]],
                      !.actions = Known(<<"insert">>)]},
        src \in {Nil(EmptySourceWire)} \cup {SourceWire(S) : S \in SUBSET SourceLists},
        acts \in {<<>>, <<"update", "insert">>},
        cols \in {<<>>, <<"id">>}}

DatabaseMergeInputs ==
    {<<prior, snapshot>> :
        prior \in {DatabasePlan(c, Absent(NullDatabaseModel)) : c \in DesiredDatabaseConfigs}
                  \cup {[NullDatabaseModel EXCEPT !.id = Str("db-1")]},
        snapshot \in DatabaseSnapshots}

BackfillMergeInputs ==
    {<<prior, snapshot>> :
        prior \in {BackfillPlan(c, Absent(NullBackfillModel)) : c \in DesiredBackfillConfigs}
                  \cup {[NullBackfillModel EXCEPT !.id = Str("bf-1"),
                                                  !.sink_consumer = sc] :
                           sc \in {NullStr, Unknown(""), Str(""), Str("sink-9")}},
        snapshot \in BackfillSnapshots
                     \cup {[BackfillSnapshot("bf-1", "active", 0)
                               EXCEPT !.sink_consumer = ""]}}

MergeInputs(rt) ==
    CASE rt = "sink_consumer" -> SinkDestMergeInputs \cup SinkRefMergeInputs
                                  \cup SinkCollectionMergeInputs
      [] rt = "database" -> DatabaseMergeInputs
      [] rt = "backfill" -> BackfillMergeInputs

\* The merge of each resource type.
MapResponseToModel(rt, response, model) ==
    CASE rt = "sink_consumer" -> SinkMapResponseToModel(response, model)
      [] rt = "database" -> DatabaseMapResponseToModel(response, model)
      [] rt = "backfill" -> MapBackfillResponseToModel(response, model)

MergeInit ==
    /\ rtype \in ResourceTypes
    /\ \E input \in MergeInputs(rtype) :
          /\ state = Present(input[1])
          /\ last = Outcome("none", "none", 0, NoDiag, <<>>, HttpOk(input[2]))
    /\ hist = [switched |-> FALSE]

\* The merge of the drawn response into the drawn prior model.
MergeOnce ==
    /\ last.op = "none"
    /\ state' = Present(MapResponseToModel(rtype, last.reply.body, state.v))
    /\ last' = Outcome("Merge", "ok", 0, NoDiag, state.v, last.reply)
    /\ UNCHANGED <<rtype, hist>>

\* The merge of the same response into the result of the first merge.
MergeAgain ==
    /\ last.op = "Merge"
    /\ state' = Present(MapResponseToModel(rtype, last.reply.body, state.v))
    /\ last' = Outcome("MergeAgain", "ok", 0, NoDiag, state.v, last.reply)
    /\ UNCHANGED <<rtype, hist>>

MergeNext ==
    \/ MergeOnce
    \/ MergeAgain

MergeSpec == MergeInit /\ [][MergeNext]_vars

----------------------------------------------------------------------------
(* Properties of the life cycle *)

\* C1: for every write-only destination attribute of a sink consumer, a
\* value the plan sets on Create that the Create response omits is the value
\* Create persists, and a Read whose response omits the attribute leaves the
\* persisted value as it was; so the value survives any number of such Reads.
SecretSurvivesCreateAndReads ==
    [][/\ (rtype = "sink_consumer" /\ last'.op = "Create" /\ last'.outcome = "ok")
          => \A f \in SensitiveAttrs :
                (/\ last'.plan.destination.k = "value"
                 /\ last'.plan.destination.a[f].k = "value"
                 /\ last'.reply.body.destination[f] = "")
                => state'.v.destination.a[f] = last'.plan.destination.a[f]
       /\ (rtype = "sink_consumer" /\ last'.op = "Read" /\ last'.outcome = "ok")
          => \A f \in SensitiveAttrs :
                (/\ state.v.destination.k = "value"
                 /\ state.v.destination.a[f].k = "value"
                 /\ last'.reply.body.destination[f] = "")
                => state'.v.destination.a[f] = state.v.destination.a[f]
      ]_vars

\* A Read whose response carries no password has left the configured
\* password in the state.
SecretSurvivedARead ==
    /\ rtype = "sink_consumer"
    /\ last.op = "Read" /\ last.outcome = "ok"
    /\ last.reply.body.destination.password = ""
    /\ state.v.destination.a.password = Str("pw1")

\* C4: once a kafka destination with hosts, topic and password has been
\* replaced by an Update to a webhook-only destination, every kafka
\* attribute of the persisted destination is null, and stays null through
\* the Reads that return webhook snapshots.
KindSwitchClearsKafka ==
    hist.switched => (state.present /\ KafkaAttrsAbsent(state.v))

\* A Read after such a switch has returned a webhook snapshot.
ReadAfterKindSwitch ==
    hist.switched /\ last.op = "Read" /\ last.outcome = "ok"

\* C5: a Create or Update whose planned destination sets an attribute that
\* its kind does not own ends in an error without calling the API.
CrossKindRejectedBeforeCall ==
    (/\ rtype = "sink_consumer"
     /\ last.op \in {"Create", "Update"}
     /\ CrossKind(last.plan.destination))
    => (last.outcome = "error" /\ last.calls = 0)

\* C9: when Create succeeded with a response and the next Read returns the
\* same response, the Read leaves the state as Create wrote it.
NoDriftBetweenCreateAndRead ==
    [][(/\ rtype = "sink_consumer"
        /\ last.op = "Create" /\ last.outcome = "ok"
        /\ last'.op = "Read" /\ last'.outcome = "ok"
        /\ last'.reply = last.reply)
       => state' = state]_vars

\* C10: for each resource type, a Read whose GET is answered with status 404
\* removes the resource from the state and adds no diagnostic.
ReadNotFoundRemoves ==
    (/\ last.op = "Read"
     /\ ~last.reply.transport
     /\ last.reply.status = 404)
    => (~state.present /\ last.outcome = "removed" /\ last.diag = NoDiag)

\* A database Read has been answered 404.
DatabaseReadAnsweredNotFound ==
    /\ rtype = "database"
    /\ last.op = "Read"
    /\ ~last.reply.transport /\ last.reply.status = 404
    /\ ~state.present

----------------------------------------------------------------------------
(* Properties of the merges *)

\* C2: in the sink consumer merge, each write-only destination attribute is
\* the response's value when the response supplies one, and otherwise the
\* prior model's value of the same attribute, null when that was null.
WriteOnlyFromResponseElsePrior ==
    (rtype = "sink_consumer" /\ last.op = "Merge")
    => \A f \in SensitiveAttrs :
          LET r == last.reply.body.destination[f]
          IN state.v.destination.a[f] =
                IF r # "" THEN Str(r) ELSE last.plan.destination.a[f]

\* C3: merging a webhook snapshot into a prior model whose destination is of
\* kind kafka leaves hosts, topic, tls and sasl_mechanism null.
WebhookMergeClearsKafkaOnly ==
    (/\ rtype = "sink_consumer" /\ last.op = "Merge"
     /\ SnapshotOfKind(last.reply.body.destination, "webhook")
     /\ last.plan.destination.k = "value"
     /\ last.plan.destination.a.type = Str("kafka"))
    => \A f \in {"hosts", "topic", "tls", "sasl_mechanism"} :
          IsNull(state.v.destination.a[f])

\* C6: when the response carries no topic, the merged topic is null unless
\* the response is of kind kafka and a routing function is in effect; and a
\* destination attribute other than topic and the write-only ones is null
\* whenever the response leaves it out.
TopicFallbackScoped ==
    (rtype = "sink_consumer" /\ last.op = "Merge")
    => LET rd == last.reply.body.destination
       IN /\ (/\ rd.topic = ""
              /\ ~(rd.type = "kafka" /\ ~IsNull(state.v.routing)))
             => IsNull(state.v.destination.a.topic)
          /\ \A f \in DestAttrs \ (SensitiveAttrs \cup {"topic"}) :
                WireAttrEmpty(rd, f) => IsNull(state.v.destination.a[f])

\* C7: each of filter, transform, enrichment and routing is null after the
\* merge when the response says "none", whatever the prior value, and is the
\* response's string when that is any other non-empty string.
NoneIsAbsentForEveryReference ==
    (rtype = "sink_consumer" /\ last.op = "Merge")
    => \A f \in RefAttrs :
          LET r == last.reply.body[f]
          IN /\ r = "none" => IsNull(state.v[f])
             /\ (r # "" /\ r # "none") => state.v[f] = Str(r)

\* C8: for each of the three merges, merging the same response into the
\* result of a merge gives that result again.
MergeIdempotent ==
    last.op = "MergeAgain" => state.v = last.plan

\* A second sink consumer merge has run on a result whose topic and
\* password were carried over from the prior model.
SecondMergeAfterFallback ==
    /\ rtype = "sink_consumer"
    /\ last.op = "MergeAgain"
    /\ last.reply.body.destination.topic = ""
    /\ last.plan.destination.a.topic = Str("old")
    /\ last.plan.destination.a.password = Str("old")

----------------------------------------------------------------------------
(* Properties of deletions and of failed calls *)

\* The last step's call was answered with the given status.
Answered(o, status) == ~o.reply.transport /\ o.reply.status = status

\* The last step's call did not come back with a success: the round trip
\* itself failed, or the answer's status is 400 or above.
FailedCall(o) == o.reply.transport \/ o.reply.status >= 400

ApiOps == {"Create", "Read", "Update", "Delete"}

\* The summary each handler gives to the error of its API call.
ErrorSummary(op, rt) ==
    "Error "
    \o (CASE op = "Create" -> "Creating"
          [] op = "Read" -> "Reading"
          [] op = "Update" -> "Updating"
          [] op = "Delete" -> "Deleting")
    \o " "
    \o (CASE rt = "sink_consumer" -> "Sink Consumer"
          [] rt = "database" -> "Database"
          [] rt = "backfill" -> "Backfill")

\* The text contains the given pieces in a row.
Mentions(text, pieces) ==
    \E i \in 1..(Len(text) - Len(pieces) + 1) :
        SubSeq(text, i, i + Len(pieces) - 1) = pieces

\* C11: for each of the three resource types, a Delete whose call is
\* answered 404 succeeds with no error and the resource is gone, so deleting
\* an already deleted resource succeeds again; a Delete answered with any
\* other status of 400 or above reports an error.
DeleteOfMissingSucceeds ==
    last.op = "Delete"
    => /\ Answered(last, 404)
          => (last.outcome = "ok" /\ last.diag = NoDiag /\ ~state.present)
       /\ (~last.reply.transport /\ last.reply.status >= 400
           /\ last.reply.status # 404)
          => (last.outcome = "error" /\ last.diag # NoDiag /\ state.present)

\* A backfill has been deleted by a call the API answered 404.
BackfillDeleteAnsweredNotFound ==
    /\ rtype = "backfill"
    /\ last.op = "Delete"
    /\ Answered(last, 404)
    /\ last.outcome = "ok"
    /\ ~state.present

\* C12: for each of the three resource types, a Read whose get call fails for
\* a reason other than the remote resource being missing (the round trip
\* failed, or the status is 400 or above and not 404) reports an error and
\* keeps the resource, whatever the identifier and the error body.
ReadFailureKeepsResource ==
    (last.op = "Read" /\ FailedCall(last) /\ ~Answered(last, 404))
    => (last.outcome = "error" /\ last.diag # NoDiag /\ state.present)

\* C13: for each of the three resource types, an Update whose call is
\* answered 404 reports an error and leaves the state as it was before the
\* Update; it is never taken for a success or for a removal.
UpdateNotFoundIsError ==
    [][(last'.op = "Update" /\ Answered(last', 404))
       => /\ last'.outcome = "error"
          /\ last'.diag.summary = ErrorSummary("Update", rtype)
          /\ state' = state
          /\ state'.present]_vars

\* A backfill Update has been answered 404.
BackfillUpdateAnsweredNotFound ==
    /\ rtype = "backfill"
    /\ last.op = "Update"
    /\ Answered(last, 404)
    /\ last.outcome = "error"
    /\ state.present

----------------------------------------------------------------------------
(* Properties of the backfill identifier and of the backfill merge *)

\* The positions of the separator in an identifier.
Separators(id) == {i \in 1..Len(id) : id[i] = "/"}

\* An identifier made of two non-empty segments joined by one separator.
TwoSegments(id) ==
    /\ Cardinality(Separators(id)) = 1
    /\ id[1] # "/"
    /\ id[Len(id)] # "/"

\* The segments before and after the one separator of such an identifier.
ParentOf(id) == SubSeq(id, 1, (CHOOSE i \in Separators(id) : TRUE) - 1)
ChildOf(id) == SubSeq(id, (CHOOSE i \in Separators(id) : TRUE) + 1, Len(id))

\* C16: the backfill import accepts an identifier exactly when it is two
\* non-empty segments joined by a single separator; an identifier with no
\* separator, with more than one separator or with an empty segment is
\* rejected with the error that names the expected format.
ImportAcceptsExactlyTwoSegments ==
    (rtype = "backfill" /\ last.op = "Import")
    => /\ (last.outcome = "ok") <=> TwoSegments(last.plan)
       /\ last.outcome = "error"
          => /\ last.diag.summary = "Invalid Import ID"
             /\ last.diag.detail[1]
                = "Expected format: <sink_consumer>/<backfill_id>, got: "

\* C17: for a parent and a child identifier that are not empty and hold no
\* separator, importing parent, separator, child gives a state whose
\* sink_consumer is the parent and whose id is the child.
ImportDecodesWhatWasEncoded ==
    (rtype = "backfill" /\ last.op = "Import" /\ TwoSegments(last.plan))
    => /\ last.outcome = "ok"
       /\ state.present
       /\ state.v.sink_consumer = Str(Text(ParentOf(last.plan)))
       /\ state.v.id = Str(Text(ChildOf(last.plan)))

\* The identifier sink1/bf-1 has been imported.
ImportedSinkAndBackfill ==
    /\ rtype = "backfill"
    /\ last.op = "Import"
    /\ last.plan = <<"sink1", "/", "bf-1">>
    /\ last.outcome = "ok"
    /\ state.v.sink_consumer = Str("sink1")
    /\ state.v.id = Str("bf-1")

\* C18: a backfill import of a malformed identifier ends in an error, calls
\* nothing and sets no attribute; an import of a well-formed one sets
\* sink_consumer and id and nothing else, and the Read that follows it gets
\* the backfill under exactly that pair and keeps sink_consumer as imported.
ImportThenReadKeepsParent ==
    [][/\ (rtype = "backfill" /\ last'.op = "Import" /\ ~TwoSegments(last'.plan))
          => (last'.outcome = "error" /\ last'.calls = 0 /\ state' = state)
       /\ (rtype = "backfill" /\ last'.op = "Import" /\ TwoSegments(last'.plan))
          => /\ last'.calls = 0
             /\ state' = Present([NullBackfillModel EXCEPT
                                    !.sink_consumer = Str(Text(ParentOf(last'.plan))),
                                    !.id = Str(Text(ChildOf(last'.plan)))])
       /\ (/\ rtype = "backfill"
           /\ last.op = "Import" /\ last.outcome = "ok"
           /\ last'.op = "Read")
          => /\ last'.sent.path
                = BackfillPath(state.v.sink_consumer.v, state.v.id.v)
             /\ last'.calls = 1
             /\ last'.outcome = "ok"
                => state'.v.sink_consumer = state.v.sink_consumer]_vars

\* C19: a backfill Create whose plan has no table sends a create request
\* with no table, and the table it persists is the one the response carries;
\* a Create whose plan has a table sends exactly that table.
CreateWithoutTableTakesResponseTable ==
    (rtype = "backfill" /\ last.op = "Create")
    => /\ last.sent.path = BackfillsPath(last.plan.sink_consumer.v)
       /\ last.plan.table.k # "value" => last.sent.body.table = ""
       /\ last.plan.table.k = "value" => last.sent.body.table = last.plan.table.v
       /\ (last.outcome = "ok" /\ last.plan.table.k # "value")
          => state.v.table = Str(last.reply.body.table)

\* A backfill has been created with no table in the plan and the response's
\* table persisted.
BackfillCreatedWithoutTable ==
    /\ rtype = "backfill"
    /\ last.op = "Create"
    /\ last.outcome = "ok"
    /\ last.plan.table.k = "unknown"
    /\ last.sent.body.table = ""
    /\ state.v.table = Str("public.users")

\* C20: the backfill merge leaves a prior sink_consumer that is known and
\* not empty as it is, whatever the response carries, and sets it to the
\* response's sink_consumer only when the prior one is null, unknown or
\* empty.
BackfillMergeKeepsParent ==
    (rtype = "backfill" /\ last.op = "Merge")
    => LET prior == last.plan.sink_consumer
       IN IF prior.k = "value" /\ prior.v # ""
          THEN state.v.sink_consumer = prior
          ELSE state.v.sink_consumer = Str(last.reply.body.sink_consumer)

\* A backfill merge has kept a prior sink_consumer that differs from the
\* response's.
BackfillMergeKeptDifferentParent ==
    /\ rtype = "backfill"
    /\ last.op = "Merge"
    /\ last.plan.sink_consumer = Str("sink-9")
    /\ last.reply.body.sink_consumer = "sink1"
    /\ state.v.sink_consumer = Str("sink-9")

----------------------------------------------------------------------------
(* Properties of the backfill's fields over its life *)

\* C21: a successful Update and any successful Read of a backfill leave the
\* persisted table and sink_consumer as they were, whatever the response
\* carries.
BackfillTableAndParentImmutable ==
    [][(/\ rtype = "backfill"
        /\ state.present
        /\ ~IsNull(state.v.table)
        /\ last'.op \in {"Read", "Update"}
        /\ last'.outcome = "ok")
       => /\ state'.v.table = state.v.table
          /\ state'.v.sink_consumer = state.v.sink_consumer]_vars

BackfillStateIsDesiredState ==
    (/\ rtype = "backfill"
     /\ last.op \in {"Create", "Read", "Update"}
     /\ last.outcome = "ok")
    => state.v.state \in {Str("active"), Str("cancelled")}

----------------------------------------------------------------------------
(* The request builders on their own: a plan is drawn, and the request     *)
(* Create builds from it or the request Update builds from it is recorded  *)
(* in last.sent.body, with the plan in last.plan.                          *)

MaxSlots == 2

\* A source object whose lists in S are set and whose other lists are null.
SourceWith(S) ==
    [k |-> "value",
     a |-> [f \in SourceLists |-> IF f \in S THEN Known(<<"public">>) ELSE Null(<<>>)]]

SinkRequestInputs ==
    {SinkPlan(c, Absent(NullSinkModel)) : c \in DesiredSinkConfigs}
    \cup {[SinkPlan(SinkConfig(Webhook, FALSE), Absent(NullSinkModel))
              EXCEPT !.source = src] :
             src \in {SourceWith(S) : S \in SUBSET SourceLists}}

\* The slots of a plan: the ID is null, unknown or assigned.
PlannedSlots ==
    {[id |-> id, publication_name |-> Str(pub), slot_name |-> Str("slot1"),
      status |-> NullStr] :
        id \in {NullStr, Unknown(""), Str("slot-1"), Str("slot-2")},
        pub \in {"pub1", "pub2"}}

RECURSIVE SlotListsUpTo(_)
SlotListsUpTo(n) ==
    IF n = 0 THEN {<<>>}
    ELSE LET prev == SlotListsUpTo(n - 1)
         IN prev \cup {Append(l, sl) : l \in {q \in prev : Len(q) = n - 1},
                                      sl \in PlannedSlots}

DatabaseRequestInputs ==
    {[DatabasePlan(DatabaseConfig(FALSE), Absent(NullDatabaseModel))
         EXCEPT !.replication_slots = Known(l)] :
        l \in SlotListsUpTo(MaxSlots) \ {<<>>}}

RequestInputs(rt) ==
    CASE rt = "sink_consumer" -> SinkRequestInputs
      [] rt = "database" -> DatabaseRequestInputs

\* The request Create and the request Update build from a plan.
CreateRequest(rt, data) ==
    CASE rt = "sink_consumer" -> SinkCreateRequest(data)
      [] rt = "database" -> DatabaseCreateRequest(data)

UpdateRequest(rt, plan) ==
    CASE rt = "sink_consumer" -> SinkUpdateRequest(plan)
      [] rt = "database" -> DatabaseUpdateRequest(plan)

RequestInit ==
    /\ rtype \in {"sink_consumer", "database"}
    /\ \E plan \in RequestInputs(rtype) : state = Present(plan)
    /\ last = Idle
    /\ hist = [switched |-> FALSE]

BuildCreateRequest ==
    /\ last.op = "none"
    /\ last' = Sent(Outcome("CreateRequest", "ok", 0, NoDiag, state.v, <<>>),
                    <<>>, CreateRequest(rtype, state.v))
    /\ UNCHANGED <<rtype, state, hist>>

BuildUpdateRequest ==
    /\ last.op = "none"
    /\ last' = Sent(Outcome("UpdateRequest", "ok", 0, NoDiag, state.v, <<>>),
                    <<>>, UpdateRequest(rtype, state.v))
    /\ UNCHANGED <<rtype, state, hist>>

RequestNext ==
    \/ BuildCreateRequest
    \/ BuildUpdateRequest

RequestSpec == RequestInit /\ [][RequestNext]_vars

----------------------------------------------------------------------------
(* Properties of the request builders *)

\* C24: the replication slots of a database Update request are the plan's
\* slots in the plan's order; a slot whose plan carries an assigned ID is
\* sent with that ID and a slot without one is sent with no ID.  No slot of a
\* Create request carries an ID.
SlotsSentInOrderWithTheirIds ==
    (rtype = "database" /\ last.op \in {"CreateRequest", "UpdateRequest"})
    => LET planned == last.plan.replication_slots.v
           sent == last.sent.body.replication_slots
       IN /\ Len(sent) = Len(planned)
          /\ \A i \in 1..Len(planned) :
                /\ sent[i].publication_name = planned[i].publication_name.v
                /\ sent[i].slot_name = planned[i].slot_name.v
                /\ last.op = "UpdateRequest"
                   => sent[i].id = (IF planned[i].id.k = "value"
                                    THEN planned[i].id.v ELSE "")
                /\ last.op = "CreateRequest" => sent[i].id = ""

\* An Update request has been built from a slot with an assigned ID followed
\* by a slot without one.
UpdateRequestWithOldAndNewSlot ==
    /\ rtype = "database"
    /\ last.op = "UpdateRequest"
    /\ Len(last.plan.replication_slots.v) = 2
    /\ last.plan.replication_slots.v[1].id = Str("slot-1")
    /\ last.plan.replication_slots.v[2].id = NullStr
    /\ last.sent.body.replication_slots[1].id = "slot-1"
    /\ last.sent.body.replication_slots[2].id = ""
    /\ last.sent.body.replication_slots[1].publication_name = "pub2"
    /\ last.sent.body.replication_slots[2].publication_name = "pub1"

\* C28: the request Create builds from a sink consumer plan is the request
\* Update builds from the same plan, and each of the four source lists is
\* sent exactly when the plan sets it, whatever the other three are.
CreateAndUpdateBuildTheSameRequest ==
    (rtype = "sink_consumer" /\ last.op = "CreateRequest")
    => /\ last.sent.body = SinkUpdateRequest(last.plan)
       /\ ~IsNull(last.plan.source)
          => \A f \in SourceLists :
                (last.sent.body.source.v[f] # <<>>) <=> ~IsNull(last.plan.source.a[f])

----------------------------------------------------------------------------
(* Properties of the database's write-only fields *)

\* C25: the database merge never takes the top-level password or the url
\* from the response: after a Create or an Update they are the plan's, and
\* after a Read they are what the state held before, also when the response
\* carries an obfuscated password.
DatabasePasswordNeverFromResponse ==
    [][/\ (rtype = "database" /\ last'.op \in {"Create", "Update"}
           /\ last'.outcome = "ok")
          => /\ state'.v.password = last'.plan.password
             /\ state'.v.url = last'.plan.url
       /\ (rtype = "database" /\ last'.op = "Read" /\ last'.outcome = "ok")
          => /\ state'.v.password = state.v.password
             /\ state'.v.url = state.v.url]_vars

\* A Read answered with an obfuscated password has left the configured
\* password in the state.
DatabasePasswordSurvivedARead ==
    /\ rtype = "database"
    /\ last.op = "Read"
    /\ last.outcome = "ok"
    /\ last.reply.body.password = "********"
    /\ state.v.password = Str("pw1")

\* C26: when the response of a database Create, Read or Update has a primary
\* whose password is empty, the persisted primary password is the prior one:
\* the plan's on Create and Update, the state's on Read.
PrimaryPasswordCarriedForward ==
    [][(/\ rtype = "database"
        /\ last'.op \in {"Create", "Read", "Update"}
        /\ last'.outcome = "ok"
        /\ last'.reply.body.primary.set
        /\ last'.reply.body.primary.v.password = "")
       => /\ state'.v.primary.k = "value"
          /\ state'.v.primary.a.password
             = (IF last'.op = "Read" THEN state.v.primary.a.password
                ELSE last'.plan.primary.a.password)]_vars

----------------------------------------------------------------------------
(* Properties of the sink consumer's collections and status_info *)

StatusInfoAlwaysKnown ==
    [][(/\ rtype = "sink_consumer"
        /\ last'.op \in {"Create", "Read", "Update"}
        /\ last'.outcome = "ok")
       => LET rs == last'.reply.body.status_info
              m == IF last'.op = "Read" THEN state.v.status_info
                   ELSE last'.plan.status_info
              hasData == rs.state # "" \/ rs.created_at # "" \/ rs.updated_at # ""
          IN /\ state'.v.status_info.k = "value"
             /\ hasData
                => state'.v.status_info.a = [f \in StatusInfoAttrs |-> Str(rs[f])]
             /\ (~hasData /\ m.k = "value") => state'.v.status_info = m
             /\ (~hasData /\ m.k # "value")
                => state'.v.status_info.a = [f \in StatusInfoAttrs |-> Str("")]]_vars

\* A Create whose response carries no status data has persisted a
\* status_info of empty strings over the plan's unknown one.
CreatedWithEmptyStatusInfo ==
    /\ rtype = "sink_consumer"
    /\ last.op = "Create"
    /\ last.outcome = "ok"
    /\ last.plan.status_info.k = "unknown"
    /\ last.reply.body.status_info.state = ""
    /\ state.v.status_info.k = "value"
    /\ state.v.status_info.a.state = Str("")

----------------------------------------------------------------------------
(* The provider (internal/provider): Configure resolves the endpoint and   *)
(* the API key and hands one client to the resources.  In this             *)
(* specification rtype is "provider" and state.v holds the provider block  *)
(* (config), the environment (env), the diagnostics of Configure, the      *)
(* client Configure left in ResourceData and the client each resource      *)
(* took from it; state.present is TRUE once Configure has run.             *)

ProviderVersion == "dev"

\* The values the provider block may give an attribute: none, one not yet
\* known, the empty string, or a string.
ProviderConfigValues(text) == {NullStr, Unknown(""), Str(""), Str(text)}

NoClient == [set |-> FALSE, v |-> [BaseURL |-> "", APIKey |-> "", Version |-> ""]]

\* client.New(baseURL, apiKey, version)
ClientNew(baseURL, apiKey, version) ==
    [set |-> TRUE, v |-> [BaseURL |-> baseURL, APIKey |-> apiKey, Version |-> version]]

\* A variant of the resolution in which a set environment variable wins.
ResolveEnvFirst(configValue, envValue) ==
    IF envValue # "" THEN envValue ELSE configValue.v

\* The environment variable is read first and replaced by the provider
\* block's value when that is not null.
Resolve(configValue, envValue) ==
    IF ~IsNull(configValue) THEN configValue.v ELSE envValue

\* resp.Diagnostics.AddAttributeError(path.Root(attribute), summary, ...)
AttributeError(attribute, summary) == [attribute |-> attribute, summary |-> summary]

ProviderInit ==
    /\ rtype = "provider"
    /\ \E ce \in ProviderConfigValues("https://cfg"),
          ck \in ProviderConfigValues("cfg-key"),
          ee \in {"", "https://env"},
          ek \in {"", "env-key"} :
          state = Absent([config |-> [endpoint |-> ce, api_key |-> ck],
                          env |-> [SEQUIN_ENDPOINT |-> ee, SEQUIN_API_KEY |-> ek],
                          diagnostics |-> <<>>,
                          ResourceData |-> NoClient,
                          clients |-> [rt \in ResourceTypes |-> NoClient]])
    /\ last = Idle
    /\ hist = [switched |-> FALSE]

\* SequinProvider.Configure
ProviderConfigure ==
    /\ ~state.present
    /\ LET endpoint == Resolve(state.v.config.endpoint, state.v.env.SEQUIN_ENDPOINT)
           apiKey == Resolve(state.v.config.api_key, state.v.env.SEQUIN_API_KEY)
           diags ==
               (IF endpoint = ""
                THEN <<AttributeError("endpoint", "Missing Sequin API Endpoint")>>
                ELSE <<>>)
               \o (IF apiKey = ""
                   THEN <<AttributeError("api_key", "Missing Sequin API Key")>>
                   ELSE <<>>)
       IN IF diags # <<>>
          THEN /\ state' = Present([state.v EXCEPT !.diagnostics = diags])
               /\ last' = Outcome("Configure", "error", 0, NoDiag, <<>>, <<>>)
          ELSE /\ state' = Present([state.v EXCEPT
                                      !.ResourceData =
                                          ClientNew(endpoint, apiKey, ProviderVersion)])
               /\ last' = Outcome("Configure", "ok", 0, NoDiag, <<>>, <<>>)
    /\ UNCHANGED <<rtype, hist>>

\* The Configure of a resource: without provider data it returns at once,
\* otherwise it keeps the provider's client.
ResourceConfigure ==
    /\ state.present
    /\ \E rt \in ResourceTypes :
          /\ state' = IF ~state.v.ResourceData.set THEN state
                      ELSE [state EXCEPT !.v.clients[rt] = state.v.ResourceData]
          /\ last' = Outcome("ResourceConfigure", "ok", 0, NoDiag, rt, <<>>)
    /\ UNCHANGED <<rtype, hist>>

ProviderNext ==
    \/ ProviderConfigure
    \/ ResourceConfigure

ProviderSpec == ProviderInit /\ [][ProviderNext]_vars

====
